---------------------------- MODULE Spec2Model ----------------------------
(***************************************************************************)
(* ComparePDF (src/main.py): L-shape fiducial detection on two rasterised  *)
(* pages, alignment of the artwork onto the template by an independent     *)
(* per-axis scale plus a translation, and an alpha blend of the two.       *)
(*                                                                         *)
(* Numbers.  Pixel samples are integers 0..255.  Python floats that are    *)
(* quotients of small integers are kept as exact rationals [num, den].     *)
(* An angle is kept as its cosine, the pair (dot, |v1|^2 |v2|^2), or NaN.  *)
(* OpenCV functions are modelled by their documented result (bilinear      *)
(* sampling in exact arithmetic, constant zero border, saturating blend).  *)
(***************************************************************************)
EXTENDS Integers, Sequences, FiniteSets, TLC

VARIABLES
    \* compare_pdfs / align_and_overlay
    pc, template_img, artwork_img, L_shapes_template, L_shapes_artwork,
    transparency, L_template, L_artwork, box_template, box_artwork,
    scale_x, scale_y, artwork_resized, translation_x, translation_y,
    artwork_translated, result_img, written, printed, error, align_called,
    \* find_L_shapes, one contour at a time
    contours, idx, angles, right_angles, L_shapes,
    \* the angle classification applied to a polygon and to its rotation
    polygon, rotation, right_before, right_after

pipeVars == <<pc, template_img, artwork_img, L_shapes_template, L_shapes_artwork,
              transparency, L_template, L_artwork, box_template, box_artwork,
              scale_x, scale_y, artwork_resized, translation_x, translation_y,
              artwork_translated, result_img, written, printed, error, align_called>>
detVars == <<contours, idx, angles, right_angles, L_shapes>>
rotVars == <<polygon, rotation, right_before, right_after>>
vars == <<pipeVars, detVars, rotVars>>

(***************************************************************************)
(* Bounds of the model.                                                    *)
(***************************************************************************)
\* vertex coordinates of the polygons given to the angle classification:
\* 0..MaxCoord and FarCoord (an edge (1, 12) makes 85.2 degrees with (1, 0),
\* an edge (1, 11) makes 84.8 degrees)
MaxCoord == 1
FarCoord == 12
\* number of contours findContours hands to one detection pass
MaxContours == 2

\* an unset variable is <<>>, a set one is <<value>>
None == <<>>

Some(v) == <<v>>

Val(o) == o[1]

\* an angle is its cosine dot / sqrt(nsq); nan is the result of 0 / 0.0
NaN == [nan |-> TRUE, dot |-> 0, nsq |-> 0]

(***************************************************************************)
(* Arithmetic.                                                             *)
(***************************************************************************)
Abs(n) == IF n < 0 THEN -n ELSE n

Min(S) == CHOOSE m \in S : \A n \in S : m <= n

Max(S) == CHOOSE m \in S : \A n \in S : n <= m

RECURSIVE Gcd(_, _)
Gcd(a, b) == IF b = 0 THEN a ELSE Gcd(b, a % b)

\* n / d rounded to the nearest integer, ties to the even one (cvRound)
RoundHalfEven(n, d) ==
    LET q == n \div d
        r == n % d
    IN  IF 2 * r < d THEN q
        ELSE IF 2 * r > d THEN q + 1
        ELSE IF q % 2 = 0 THEN q ELSE q + 1

\* the rational n / d in lowest terms, d # 0
Rat(n, d) ==
    LET g == Gcd(Abs(n), Abs(d))
        s == IF d < 0 THEN -1 ELSE 1
    IN  [num |-> s * (n \div g), den |-> s * (d \div g)]

RatOfInt(n) == [num |-> n, den |-> 1]

RatMul(a, b) == Rat(a.num * b.num, a.den * b.den)

RatSub(a, b) == Rat(a.num * b.den - b.num * a.den, a.den * b.den)

RatAdd(a, b) == Rat(a.num * b.den + b.num * a.den, a.den * b.den)

(***************************************************************************)
(* find_L_shapes: the angle classification of one simplified contour.      *)
(* A polygon is the sequence of the points approx[i][0].                   *)
(***************************************************************************)
VecSub(p, q) == <<p[1] - q[1], p[2] - q[2]>>

\* np.dot(u, v)
VecDot(u, v) == u[1] * v[1] + u[2] * v[2]

\* the 1-norm in place of the Euclidean norm: np.linalg.norm(v, 1) squared
NormSqL1(v) == (Abs(v[1]) + Abs(v[2])) * (Abs(v[1]) + Abs(v[2]))

\* np.linalg.norm(v) squared
NormSq(v) == VecDot(v, v)

\* cos(85 deg)^2 = 0.0075961... as a fraction; cos(95 deg) = -cos(85 deg)
CosSqNum == 17
CosSqDen == 2238

\* floor(cos(85 deg)^2 * n), without a product beyond 32 bits
CosSqFloor(n) ==
    CosSqNum * (n \div CosSqDen) + (CosSqNum * (n % CosSqDen)) \div CosSqDen

\* vertices i, i+1, i+2 (cyclically) of the code's 0-based loop, here 1-based
Pt1(approx, i) == approx[i]

Pt2(approx, i) == approx[(i % Len(approx)) + 1]

Pt3(approx, i) == approx[((i + 1) % Len(approx)) + 1]

\* angle = arccos(dot(v1, v2) / (norm(v1) * norm(v2))): 0 / 0.0 is nan
Angle(approx, i) ==
    LET v1 == VecSub(Pt2(approx, i), Pt1(approx, i))
        v2 == VecSub(Pt3(approx, i), Pt2(approx, i))
        nn == NormSq(v1) * NormSq(v2)
    IN  IF nn = 0 THEN NaN ELSE [nan |-> FALSE, dot |-> VecDot(v1, v2), nsq |-> nn]

\* a comparison with nan accepted: the test written as "not (a < 85 or a > 95)"
IsRightAngleNanPasses(a) ==
    \/ a.nan
    \/ /\ (a.dot <= 0 \/ a.dot * a.dot <= CosSqFloor(a.nsq))
       /\ (a.dot >= 0 \/ a.dot * a.dot <= CosSqFloor(a.nsq))

\* 85 <= angle <= 95; every comparison with nan is False
\*   angle <= 95  iff  cos >= -cos(85 deg)  iff  dot >= 0 or dot^2 <= cos(85)^2 nsq
\*   angle >= 85  iff  cos <=  cos(85 deg)  iff  dot <= 0 or dot^2 <= cos(85)^2 nsq
IsRightAngle(a) ==
    /\ ~a.nan
    /\ (a.dot <= 0 \/ a.dot * a.dot <= CosSqFloor(a.nsq))
    /\ (a.dot >= 0 \/ a.dot * a.dot <= CosSqFloor(a.nsq))

AnglesOf(approx) == [i \in 1..Len(approx) |-> Angle(approx, i)]

RightAnglesOf(approx) == SelectSeq(AnglesOf(approx), IsRightAngle)

\* the loop indices whose angle is counted
RightVertices(approx) == {i \in 1..Len(approx) : IsRightAngle(Angle(approx, i))}

\* any vertex count accepted
VertexCountOkAny(approx) == TRUE

\* 3 <= len(approx) <= 4
VertexCountOk(approx) == 3 <= Len(approx) /\ Len(approx) <= 4

\* len(right_angles) >= 2
EnoughRightAngles(ra) == Len(ra) >= 2

IsLShape(approx) ==
    VertexCountOk(approx) /\ EnoughRightAngles(RightAnglesOf(approx))

\* the whole loop over the contours
FindLShapes(cs) == SelectSeq(cs, IsLShape)


(***************************************************************************)
(* Values of the variables an operation does not use.                      *)
(***************************************************************************)
PipeIdle ==
    /\ template_img = None /\ artwork_img = None
    /\ L_shapes_template = None /\ L_shapes_artwork = None
    /\ transparency = None /\ L_template = None /\ L_artwork = None
    /\ box_template = None /\ box_artwork = None
    /\ scale_x = None /\ scale_y = None /\ artwork_resized = None
    /\ translation_x = None /\ translation_y = None
    /\ artwork_translated = None /\ result_img = None
    /\ written = None /\ printed = <<>> /\ error = "None"
    /\ align_called = FALSE

DetIdle ==
    /\ contours = <<>> /\ idx = 0 /\ angles = <<>>
    /\ right_angles = <<>> /\ L_shapes = <<>>

RotIdle ==
    /\ polygon = <<>> /\ rotation = "None"
    /\ right_before = {} /\ right_after = {}

(***************************************************************************)
(* The contours of a detection pass.  findContours and approxPolyDP are    *)
(* library code: their result is an input, any sequence of polygons.       *)
(***************************************************************************)
Coords == (0..MaxCoord) \cup {FarCoord}

Points == Coords \X Coords

\* every 3- and 4-vertex polygon on the grid, repeated vertices included
GridPolys == UNION {[1..n -> Points] : n \in 3..4}

Square == <<<<0, 0>>, <<1, 0>>, <<1, 1>>, <<0, 1>>>>

SmallPolys ==
    { Square,
      <<<<0, 0>>, <<2, 0>>, <<2, 1>>, <<1, 1>>>>,            \* right trapezoid
      <<<<0, 0>>, <<1, 0>>, <<0, 1>>>>,                      \* triangle
      <<<<0, 0>>, <<0, 0>>, <<1, 0>>, <<1, 1>>>>,            \* repeated vertex
      <<<<0, 0>>, <<1, 1>>>>,                                \* 2 vertices
      <<<<0, 0>>, <<1, 0>>, <<1, 1>>, <<0, 1>>, <<0, 2>>>> } \* 5 vertices

SeqsUpTo(S, n) == UNION {[1..k -> S] : k \in 0..n}

DetectContourLists ==
    {<<p>> : p \in GridPolys} \cup SeqsUpTo(SmallPolys, MaxContours)

(***************************************************************************)
(* find_L_shapes, lines 35-60, one iteration of the loop per step.         *)
(***************************************************************************)
InitDetect ==
    /\ pc = "loop"
    /\ PipeIdle /\ RotIdle
    /\ contours \in DetectContourLists
    /\ idx = 0
    /\ angles = <<>>
    /\ right_angles = <<>>
    /\ L_shapes = <<>>

ContourStep ==
    /\ pc = "loop"
    /\ idx < Len(contours)
    /\ LET approx == contours[idx + 1]
       IN  IF VertexCountOk(approx)
           THEN LET as == AnglesOf(approx)
                    ra == SelectSeq(as, IsRightAngle)
                IN  /\ angles' = as
                    /\ right_angles' = ra
                    /\ L_shapes' = IF EnoughRightAngles(ra)
                                   THEN Append(L_shapes, approx)
                                   ELSE L_shapes
           ELSE UNCHANGED <<angles, right_angles, L_shapes>>
    /\ idx' = idx + 1
    /\ UNCHANGED <<contours, pipeVars, rotVars>>

ReturnLShapes ==
    /\ pc = "loop"
    /\ idx = Len(contours)
    /\ pc' = "returned"
    /\ UNCHANGED <<template_img, artwork_img, L_shapes_template, L_shapes_artwork,
                   transparency, L_template, L_artwork, box_template, box_artwork,
                   scale_x, scale_y, artwork_resized, translation_x, translation_y,
                   artwork_translated, result_img, written, printed, error,
                   align_called, detVars, rotVars>>

NextDetect == ContourStep \/ ReturnLShapes

SpecDetect == InitDetect /\ [][NextDetect]_vars

(***************************************************************************)
(* The angle classification of a polygon and of the same polygon rotated.  *)
(* On integer coordinates the exact rotations are the quarter turns and,   *)
(* for a polygon scaled by 5, the rotation by atan(4/3):                   *)
(* (x, y) -> ((3x - 4y)/5, (4x + 3y)/5).                                   *)
(***************************************************************************)
Rotations == {"90", "180", "270", "atan(4/3)"}

Scale5(q) == <<5 * q[1], 5 * q[2]>>

Turn90(q) == <<-q[2], q[1]>>

Turn180(q) == <<-q[1], -q[2]>>

Turn270(q) == <<q[2], -q[1]>>

\* Scale5(q) rotated by atan(4/3)
TurnAtan43(q) == <<3 * q[1] - 4 * q[2], 4 * q[1] + 3 * q[2]>>

\* the polygon before the rotation r
Unrotated(r, p) ==
    [i \in 1..Len(p) |-> IF r = "atan(4/3)" THEN Scale5(p[i]) ELSE p[i]]

\* the polygon after the rotation r
Rotated(r, p) ==
    [i \in 1..Len(p) |->
        CASE r = "90" -> Turn90(p[i])
          [] r = "180" -> Turn180(p[i])
          [] r = "270" -> Turn270(p[i])
          [] r = "atan(4/3)" -> TurnAtan43(p[i])]

InitRot ==
    /\ pc = "polygon"
    /\ PipeIdle /\ DetIdle
    /\ polygon \in GridPolys
    /\ rotation = "None"
    /\ right_before = {}
    /\ right_after = {}

ClassifyRotated ==
    /\ pc = "polygon"
    /\ \E r \in Rotations :
        /\ rotation' = r
        /\ right_before' = RightVertices(Unrotated(r, polygon))
        /\ right_after' = RightVertices(Rotated(r, polygon))
    /\ pc' = "classified"
    /\ UNCHANGED <<template_img, artwork_img, L_shapes_template, L_shapes_artwork,
                   transparency, L_template, L_artwork, box_template, box_artwork,
                   scale_x, scale_y, artwork_resized, translation_x, translation_y,
                   artwork_translated, result_img, written, printed, error,
                   align_called, detVars, polygon>>

NextRot == ClassifyRotated

SpecRot == InitRot /\ [][NextRot]_vars


(***************************************************************************)
(* Images.  An image is [w, h, ch, pix]: numpy shape (h, w, ch), pix maps  *)
(* <<x, y>> (0-based) to the ch samples of the pixel.                      *)
(***************************************************************************)
PixelsOf(w, h) == (0..(w - 1)) \X (0..(h - 1))

MkImage(w, h, ch, seed) ==
    [w |-> w, h |-> h, ch |-> ch,
     pix |-> [q \in PixelsOf(w, h) |->
                [c \in 1..ch |-> (seed + 40 * q[1] + 90 * q[2] + 25 * c) % 256]]]

\* n / d rounded to the nearest integer, ties upwards
RoundHalfUp(n, d) == (2 * n + d) \div (2 * d)

Clamp(v, lo, hi) == IF v < lo THEN lo ELSE IF v > hi THEN hi ELSE v

(***************************************************************************)
(* cv2.resize(img, None, fx, fy), bilinear.  Destination x takes the       *)
(* source coordinate (x + 1/2) / fx - 1/2, clamped to the image.           *)
(***************************************************************************)
ResizedLen(n, f) == RoundHalfEven(n * f.num, f.den)

ResizeFails(img, fx, fy) ==
    \/ fx.num <= 0 \/ fy.num <= 0
    \/ ResizedLen(img.w, fx) = 0 \/ ResizedLen(img.h, fy) = 0

\* the two source positions of destination position d and their weights,
\* out of 2 * f.num, on an axis of n source samples
ResizeTaps(d, n, f) ==
    LET num == (2 * d + 1) * f.den - f.num
        den == 2 * f.num
        s == num \div den
        r == num % den
    IN  IF s < 0 THEN <<[at |-> 0, wt |-> den], [at |-> 0, wt |-> 0]>>
        ELSE IF s >= n - 1 THEN <<[at |-> n - 1, wt |-> den], [at |-> n - 1, wt |-> 0]>>
        ELSE <<[at |-> s, wt |-> den - r], [at |-> s + 1, wt |-> r]>>

Resize(img, fx, fy) ==
    LET dw == ResizedLen(img.w, fx)
        dh == ResizedLen(img.h, fy)
    IN  [w |-> dw, h |-> dh, ch |-> img.ch,
         pix |-> [q \in PixelsOf(dw, dh) |->
            LET tx == ResizeTaps(q[1], img.w, fx)
                ty == ResizeTaps(q[2], img.h, fy)
            IN  [c \in 1..img.ch |->
                  RoundHalfUp(
                      tx[1].wt * ty[1].wt * img.pix[<<tx[1].at, ty[1].at>>][c]
                    + tx[2].wt * ty[1].wt * img.pix[<<tx[2].at, ty[1].at>>][c]
                    + tx[1].wt * ty[2].wt * img.pix[<<tx[1].at, ty[2].at>>][c]
                    + tx[2].wt * ty[2].wt * img.pix[<<tx[2].at, ty[2].at>>][c],
                      4 * fx.num * fy.num)]]]

(***************************************************************************)
(* cv2.warpAffine(img, [[1, 0, tx], [0, 1, ty]], (w, h)): destination      *)
(* (x, y) takes the source at (x - tx, y - ty), bilinear, and 0 outside    *)
(* the source (BORDER_CONSTANT).                                           *)
(***************************************************************************)
WarpTaps(d, t) ==
    LET num == d * t.den - t.num
        s == num \div t.den
        r == num % t.den
    IN  <<[at |-> s, wt |-> t.den - r], [at |-> s + 1, wt |-> r]>>

\* a sample of the image, 0 outside it
SampleOrZero(img, x, y, c) ==
    IF 0 <= x /\ x < img.w /\ 0 <= y /\ y < img.h THEN img.pix[<<x, y>>][c] ELSE 0

WarpTranslate(img, tx, ty, w, h) ==
    [w |-> w, h |-> h, ch |-> img.ch,
     pix |-> [q \in PixelsOf(w, h) |->
        LET ax == WarpTaps(q[1], tx)
            ay == WarpTaps(q[2], ty)
        IN  [c \in 1..img.ch |->
              RoundHalfUp(
                  ax[1].wt * ay[1].wt * SampleOrZero(img, ax[1].at, ay[1].at, c)
                + ax[2].wt * ay[1].wt * SampleOrZero(img, ax[2].at, ay[1].at, c)
                + ax[1].wt * ay[2].wt * SampleOrZero(img, ax[1].at, ay[2].at, c)
                + ax[2].wt * ay[2].wt * SampleOrZero(img, ax[2].at, ay[2].at, c),
                  tx.den * ty.den)]]]

(***************************************************************************)
(* cv2.addWeighted(src1, alpha, src2, beta, 0): per sample                 *)
(* saturate(round(src1 * alpha + src2 * beta)); the two arrays must have   *)
(* the same size and the same number of channels.                          *)
(***************************************************************************)
AddWeightedFails(src1, src2) ==
    src1.w # src2.w \/ src1.h # src2.h \/ src1.ch # src2.ch

\* the two weights exchanged
WeightedSampleSwapped(a, alpha, b, beta) ==
    Clamp(RoundHalfEven(a * beta.num * alpha.den + b * alpha.num * beta.den,
                        alpha.den * beta.den), 0, 255)

WeightedSample(a, alpha, b, beta) ==
    Clamp(RoundHalfEven(a * alpha.num * beta.den + b * beta.num * alpha.den,
                        alpha.den * beta.den), 0, 255)

AddWeighted(src1, alpha, src2, beta) ==
    [w |-> src1.w, h |-> src1.h, ch |-> src1.ch,
     pix |-> [q \in PixelsOf(src1.w, src1.h) |->
                [c \in 1..src1.ch |->
                    WeightedSample(src1.pix[q][c], alpha, src2.pix[q][c], beta)]]]

(***************************************************************************)
(* align_and_overlay, lines 89-115.                                        *)
(***************************************************************************)
\* cv2.boundingRect: (x, y, w, h) of integer points; the empty rectangle
\* for an empty point set (or an all-zero mask)
BoundingRect(L) ==
    IF Len(L) = 0 THEN [x |-> 0, y |-> 0, w |-> 0, h |-> 0]
    ELSE LET xs == {L[i][1] : i \in 1..Len(L)}
             ys == {L[i][2] : i \in 1..Len(L)}
         IN  [x |-> Min(xs), y |-> Min(ys),
              w |-> Max(xs) - Min(xs) + 1, h |-> Max(ys) - Min(ys) + 1]

\* the template width over the artwork height
ScaleXWrongAxis(bt, ba) == Rat(bt.w, ba.h)

\* scale_x = w_template / w_artwork
ScaleX(bt, ba) == Rat(bt.w, ba.w)

\* scale_y = h_template / h_artwork
ScaleY(bt, ba) == Rat(bt.h, ba.h)

\* the artwork origin not scaled
TranslationUnscaled(t, a, scale) == RatOfInt(t - a)

\* translation = template origin - artwork origin * scale
Translation(t, a, scale) == RatSub(RatOfInt(t), RatMul(RatOfInt(a), scale))

\* what a call leaves behind: the exception raised ("None" if none) and the
\* locals assigned before it
Outcome(err, bt, ba, sx, sy, resized, tx, ty, translated, overlay) ==
    [error |-> err, box_template |-> bt, box_artwork |-> ba,
     scale_x |-> sx, scale_y |-> sy, artwork_resized |-> resized,
     translation_x |-> tx, translation_y |-> ty,
     artwork_translated |-> translated, overlay |-> overlay]

AlignAndOverlay(timg, aimg, Lt, La, tr) ==
    LET bt == BoundingRect(Lt)
        ba == BoundingRect(La)
    IN  IF ba.w = 0 \/ ba.h = 0
        THEN Outcome("ZeroDivisionError", Some(bt), Some(ba),
                     IF ba.w = 0 THEN None ELSE Some(ScaleX(bt, ba)),
                     None, None, None, None, None, None)
        ELSE
        LET sx == ScaleX(bt, ba)
            sy == ScaleY(bt, ba)
        IN  IF ResizeFails(aimg, sx, sy)
            THEN Outcome("cv2.error", Some(bt), Some(ba), Some(sx), Some(sy),
                         None, None, None, None, None)
            ELSE
            LET resized == Resize(aimg, sx, sy)
                tx == Translation(bt.x, ba.x, sx)
                ty == Translation(bt.y, ba.y, sy)
                translated == WarpTranslate(resized, tx, ty, timg.w, timg.h)
            IN  IF AddWeightedFails(timg, translated)
                THEN Outcome("cv2.error", Some(bt), Some(ba), Some(sx), Some(sy),
                             Some(resized), Some(tx), Some(ty), Some(translated), None)
                ELSE Outcome("None", Some(bt), Some(ba), Some(sx), Some(sy),
                             Some(resized), Some(tx), Some(ty), Some(translated),
                             Some(AddWeighted(timg, RatSub(RatOfInt(1), tr),
                                              translated, tr)))

\* the locals of the call, as the state shows them
SetAlignLocals(o) ==
    /\ box_template' = o.box_template
    /\ box_artwork' = o.box_artwork
    /\ scale_x' = o.scale_x
    /\ scale_y' = o.scale_y
    /\ artwork_resized' = o.artwork_resized
    /\ translation_x' = o.translation_x
    /\ translation_y' = o.translation_y
    /\ artwork_translated' = o.artwork_translated
    /\ error' = o.error

(***************************************************************************)
(* compare_pdfs, lines 64-82.  The pages come from extract_page_as_image   *)
(* (3 samples per pixel); the contours of a page are polygons inside it.   *)
(***************************************************************************)
PageSizes == {<<4, 2>>, <<2, 4>>}

PageImages == {MkImage(d[1], d[2], 3, 10 * d[1]) : d \in PageSizes}

Transparencies == {Rat(0, 1), Rat(1, 2), Rat(1, 1)}

RectPoly(x1, y1, x2, y2) == <<<<x1, y1>>, <<x2, y1>>, <<x2, y2>>, <<x1, y2>>>>

\* contours of a page: the square at the origin, the page outline, the
\* outline without its first column (or row), and a triangle (no candidate)
PagePolys(img) ==
    { RectPoly(0, 0, 1, 1),
      RectPoly(0, 0, img.w - 1, img.h - 1),
      IF img.w > img.h THEN RectPoly(1, 0, img.w - 1, img.h - 1)
                       ELSE RectPoly(0, 1, img.w - 1, img.h - 1),
      <<<<0, 0>>, <<1, 0>>, <<0, 1>>>> }

PageContourLists(img) == SeqsUpTo(PagePolys(img), MaxContours)

Init ==
    /\ pc = "extract"
    /\ PipeIdle /\ DetIdle /\ RotIdle

\* lines 64-67
ExtractPages ==
    /\ pc = "extract"
    /\ \E t \in PageImages, a \in PageImages, tr \in Transparencies :
        /\ template_img' = Some(t)
        /\ artwork_img' = Some(a)
        /\ transparency' = Some(tr)
    /\ pc' = "find_template"
    /\ UNCHANGED <<L_shapes_template, L_shapes_artwork, L_template, L_artwork,
                   box_template, box_artwork, scale_x, scale_y, artwork_resized,
                   translation_x, translation_y, artwork_translated, result_img,
                   written, printed, error, align_called, detVars, rotVars>>

\* line 70
FindTemplate ==
    /\ pc = "find_template"
    /\ \E cs \in PageContourLists(Val(template_img)) :
        L_shapes_template' = Some(FindLShapes(cs))
    /\ pc' = "find_artwork"
    /\ UNCHANGED <<template_img, artwork_img, transparency, L_shapes_artwork,
                   L_template, L_artwork,
                   box_template, box_artwork, scale_x, scale_y, artwork_resized,
                   translation_x, translation_y, artwork_translated, result_img,
                   written, printed, error, align_called, detVars, rotVars>>

\* line 71
FindArtwork ==
    /\ pc = "find_artwork"
    /\ \E cs \in PageContourLists(Val(artwork_img)) :
        L_shapes_artwork' = Some(FindLShapes(cs))
    /\ pc' = "check"
    /\ UNCHANGED <<template_img, artwork_img, transparency, L_shapes_template,
                   L_template, L_artwork,
                   box_template, box_artwork, scale_x, scale_y, artwork_resized,
                   translation_x, translation_y, artwork_translated, result_img,
                   written, printed, error, align_called, detVars, rotVars>>

\* both lists have to be empty
NoLShapesBoth(Lt, La) == Len(Lt) = 0 /\ Len(La) = 0

\* line 73: not L_shapes_template or not L_shapes_artwork
NoLShapes(Lt, La) == Len(Lt) = 0 \/ Len(La) = 0

\* lines 73-75
ReturnNoLShapes ==
    /\ pc = "check"
    /\ NoLShapes(Val(L_shapes_template), Val(L_shapes_artwork))
    /\ printed' = Append(printed, "No L-shapes found in one or both images.")
    /\ pc' = "done"
    /\ UNCHANGED <<template_img, artwork_img, transparency, L_shapes_template,
                   L_shapes_artwork, L_template, L_artwork,
                   box_template, box_artwork, scale_x, scale_y, artwork_resized,
                   translation_x, translation_y, artwork_translated, result_img,
                   written, error, align_called, detVars, rotVars>>

\* the last candidate of the list
LastCandidate(L) == L[Len(L)]

\* L_shapes[0]
FirstCandidate(L) == L[1]

\* line 78; indexing an empty list raises IndexError before the call
Align ==
    /\ pc = "check"
    /\ ~NoLShapes(Val(L_shapes_template), Val(L_shapes_artwork))
    /\ IF Len(Val(L_shapes_template)) = 0 \/ Len(Val(L_shapes_artwork)) = 0
       THEN /\ error' = "IndexError"
            /\ pc' = "raised"
            /\ UNCHANGED <<L_template, L_artwork, box_template, box_artwork,
                           scale_x, scale_y, artwork_resized, translation_x,
                           translation_y, artwork_translated, result_img,
                           align_called>>
       ELSE LET Lt == FirstCandidate(Val(L_shapes_template))
                La == FirstCandidate(Val(L_shapes_artwork))
                o == AlignAndOverlay(Val(template_img), Val(artwork_img),
                                     Lt, La, Val(transparency))
            IN  /\ align_called' = TRUE
                /\ L_template' = Some(Lt)
                /\ L_artwork' = Some(La)
                /\ SetAlignLocals(o)
                /\ result_img' = o.overlay
                /\ pc' = IF o.error = "None" THEN "write" ELSE "raised"
    /\ UNCHANGED <<template_img, artwork_img, transparency, L_shapes_template,
                   L_shapes_artwork, written, printed, detVars, rotVars>>

\* lines 81-82
Imwrite ==
    /\ pc = "write"
    /\ written' = result_img
    /\ printed' = Append(printed, "Overlay image saved to overlay_result.png")
    /\ pc' = "done"
    /\ UNCHANGED <<template_img, artwork_img, transparency, L_shapes_template,
                   L_shapes_artwork, L_template, L_artwork,
                   box_template, box_artwork, scale_x, scale_y, artwork_resized,
                   translation_x, translation_y, artwork_translated, result_img,
                   error, align_called, detVars, rotVars>>

Next == ExtractPages \/ FindTemplate \/ FindArtwork \/ ReturnNoLShapes \/ Align \/ Imwrite

Spec == Init /\ [][Next]_vars

(***************************************************************************)
(* align_and_overlay called on its own, with any images and point sets.    *)
(***************************************************************************)
AlignImages ==
    {MkImage(d[1], d[2], ch, 10 * d[1]) : d \in {<<2, 2>>, <<3, 2>>}, ch \in {1, 3}}

AlignPointSets ==
    { <<>>, Square, RectPoly(0, 0, 2, 1), RectPoly(1, 0, 2, 1), RectPoly(0, 0, 11, 1) }

InitAlign ==
    /\ pc = "call"
    /\ template_img \in {Some(i) : i \in AlignImages}
    /\ artwork_img \in {Some(i) : i \in AlignImages}
    /\ L_template \in {Some(L) : L \in AlignPointSets}
    /\ L_artwork \in {Some(L) : L \in AlignPointSets}
    /\ transparency \in {Some(tr) : tr \in Transparencies}
    /\ L_shapes_template = None /\ L_shapes_artwork = None
    /\ box_template = None /\ box_artwork = None
    /\ scale_x = None /\ scale_y = None /\ artwork_resized = None
    /\ translation_x = None /\ translation_y = None
    /\ artwork_translated = None /\ result_img = None
    /\ written = None /\ printed = <<>> /\ error = "None"
    /\ align_called = FALSE
    /\ DetIdle /\ RotIdle

AlignCall ==
    /\ pc = "call"
    /\ LET o == AlignAndOverlay(Val(template_img), Val(artwork_img),
                                Val(L_template), Val(L_artwork), Val(transparency))
       IN  /\ SetAlignLocals(o)
           /\ result_img' = o.overlay
           /\ pc' = IF o.error = "None" THEN "returned" ELSE "raised"
    /\ align_called' = TRUE
    /\ UNCHANGED <<template_img, artwork_img, transparency, L_shapes_template,
                   L_shapes_artwork, L_template, L_artwork, written, printed,
                   detVars, rotVars>>

NextAlign == AlignCall

SpecAlign == InitAlign /\ [][NextAlign]_vars

(***************************************************************************)
(* Properties of find_L_shapes (checked under SpecDetect and SpecRot).     *)
(***************************************************************************)
C7_Qualifies(p) ==
    /\ Len(p) \in {3, 4}
    /\ Cardinality(RightVertices(p)) >= 2

\* C7: every polygon find_L_shapes returns has 3 or 4 vertices and at least
\* 2 of its cyclic vertex angles in [85, 95] degrees, and the list returned
\* is exactly the contours with that property, in the order of discovery.
C7_ReturnedAreExactlyQualifying ==
    /\ \A k \in 1..Len(L_shapes) :
        /\ Len(L_shapes[k]) \in {3, 4}
        /\ Cardinality(RightVertices(L_shapes[k])) >= 2
    /\ L_shapes = SelectSeq(SubSeq(contours, 1, idx), C7_Qualifies)

C7_Witness ==
    /\ pc = "returned"
    /\ Len(contours) = 2
    /\ Len(contours[1]) = 5
    /\ Cardinality(RightVertices(contours[1])) >= 2
    /\ L_shapes = <<contours[2]>>

ZeroEdge(p, i) == Pt1(p, i) = Pt2(p, i) \/ Pt2(p, i) = Pt3(p, i)

C8_InBand(p, i) ==
    /\ ~ZeroEdge(p, i)
    /\ LET v1 == VecSub(Pt2(p, i), Pt1(p, i))
           v2 == VecSub(Pt3(p, i), Pt2(p, i))
       IN  VecDot(v1, v2) * VecDot(v1, v2)
               <= CosSqFloor(NormSq(v1) * NormSq(v2))

C8_Qualifies(p) ==
    /\ Len(p) \in {3, 4}
    /\ Cardinality({i \in 1..Len(p) : C8_InBand(p, i)}) >= 2

\* C8: a zero-length edge vector makes the angle at its vertex not count as
\* a right angle, no nan reaches right_angles, nothing is raised, and the
\* other vertices and the later contours are classified as usual.
C8_ZeroEdgeHandledLocally ==
    /\ error = "None"
    /\ \A k \in 1..Len(right_angles) : ~right_angles[k].nan
    /\ (idx >= 1 /\ Len(contours[idx]) \in {3, 4}) =>
           Len(right_angles) =
               Cardinality({i \in 1..Len(contours[idx]) : C8_InBand(contours[idx], i)})
    /\ L_shapes = SelectSeq(SubSeq(contours, 1, idx), C8_Qualifies)
    /\ pc = "returned" => idx = Len(contours)

C8_Witness ==
    /\ pc = "returned"
    /\ Len(contours) = 2
    /\ Len(contours[1]) = 4
    /\ \E i \in 1..4 : ZeroEdge(contours[1], i)
    /\ \E i \in 1..4 : ~ZeroEdge(contours[1], i)
    /\ L_shapes = <<contours[2]>>

\* C10: rotating every vertex of a 3- or 4-vertex polygon by one fixed
\* rotation leaves the set of vertices whose angle lies in [85, 95] degrees
\* unchanged, and so leaves unchanged whether the polygon is a candidate.
C10_RotationInvariant ==
    pc = "classified" =>
        /\ right_before = right_after
        /\ IsLShape(Unrotated(rotation, polygon)) = IsLShape(Rotated(rotation, polygon))

C10_Witness ==
    /\ pc = "classified"
    /\ rotation = "atan(4/3)"
    /\ Cardinality(right_after) = 2
    /\ Len(polygon) = 4
    /\ \E i \in right_after : Angle(Rotated(rotation, polygon), i).dot # 0


(***************************************************************************)
(* Properties of compare_pdfs (checked under Spec).                        *)
(***************************************************************************)
ListsKnown == L_shapes_template # None /\ L_shapes_artwork # None

\* C1: when find_L_shapes returned an empty list for the template, for the
\* artwork or for both, compare_pdfs prints the "No L-shapes found" message
\* and returns: align_and_overlay is not called, no composite exists or is
\* written, and nothing is raised.
C1_EmptyListStopsPipeline ==
    (/\ ListsKnown
     /\ (Len(Val(L_shapes_template)) = 0 \/ Len(Val(L_shapes_artwork)) = 0)) =>
        /\ pc \in {"check", "done"}
        /\ ~align_called
        /\ result_img = None
        /\ written = None
        /\ error = "None"
        /\ pc = "done" => printed = <<"No L-shapes found in one or both images.">>

C1_Witness ==
    /\ pc = "done"
    /\ Len(Val(L_shapes_template)) = 0
    /\ Len(Val(L_shapes_artwork)) > 0
    /\ printed = <<"No L-shapes found in one or both images.">>

One == [num |-> 1, den |-> 1]

Zero == [num |-> 0, den |-> 1]

\* the artwork sample at pixel q, the background 0 where the artwork has none
C3_ArtworkSample(q, c) ==
    IF q[1] < Val(artwork_img).w /\ q[2] < Val(artwork_img).h
    THEN Val(artwork_img).pix[q][c]
    ELSE 0

\* template * (1 - a) + artwork * a, rounded, for a = tr.num / tr.den
C3_Blend(t, a, tr) ==
    Clamp(RoundHalfEven(t * (tr.den - tr.num) + a * tr.num, tr.den), 0, 255)

\* C3: when the two chosen fiducials have the same bounding box, the
\* transform is the identity (scale 1, translation 0) and the composite is
\* the flat alpha blend of the template with the artwork as it is.
C3_IdenticalBoxesIdentity ==
    (align_called /\ box_template = box_artwork) =>
        /\ scale_x = Some(One) /\ scale_y = Some(One)
        /\ translation_x = Some(Zero) /\ translation_y = Some(Zero)
        /\ result_img # None
        /\ Val(result_img).w = Val(template_img).w
        /\ Val(result_img).h = Val(template_img).h
        /\ \A q \in PixelsOf(Val(template_img).w, Val(template_img).h) :
            \A c \in 1..Val(template_img).ch :
                Val(result_img).pix[q][c] =
                    C3_Blend(Val(template_img).pix[q][c], C3_ArtworkSample(q, c),
                             Val(transparency))

C3_Witness ==
    /\ pc = "done"
    /\ written # None
    /\ box_template = box_artwork
    /\ Val(template_img).w # Val(artwork_img).w
    /\ Val(transparency) = [num |-> 1, den |-> 2]

\* a template pixel no sample of the translated artwork reaches
C4_Uncovered(q) ==
    LET tx == Val(translation_x)
        ty == Val(translation_y)
        r == Val(artwork_resized)
    IN  \/ q[1] * tx.den - tx.num <= -tx.den
        \/ q[1] * tx.den - tx.num >= r.w * tx.den
        \/ q[2] * ty.den - ty.num <= -ty.den
        \/ q[2] * ty.den - ty.num >= r.h * ty.den

\* C4: with opacity 0 the composite is the template image, sample for
\* sample; with opacity 1 it is the scaled and translated artwork image,
\* which is 0 wherever the artwork does not reach.
C4_OpacityBoundary ==
    result_img # None =>
        /\ transparency = Some(Zero) => result_img = template_img
        /\ transparency = Some(One) =>
            /\ result_img = artwork_translated
            /\ \A q \in PixelsOf(Val(template_img).w, Val(template_img).h) :
                C4_Uncovered(q) =>
                    \A c \in 1..Val(result_img).ch : Val(result_img).pix[q][c] = 0

C4_Witness ==
    /\ written # None
    /\ transparency = Some(One)
    /\ written # template_img
    /\ \E q \in PixelsOf(Val(template_img).w, Val(template_img).h) : C4_Uncovered(q)
    /\ \E q \in PixelsOf(Val(template_img).w, Val(template_img).h) :
        Val(written).pix[q][1] # 0

C4_WitnessOpaqueTemplate ==
    /\ written # None
    /\ transparency = Some(Zero)
    /\ artwork_translated # template_img

\* C5: the scale is per axis, template box width over artwork box width and
\* template box height over artwork box height (a width twice the other
\* gives exactly 2), and the translation is the template box origin minus
\* the scaled artwork box origin, so that the artwork box origin, scaled
\* and translated, is the template box origin.
C5_ScaleAndTranslation ==
    align_called =>
        LET bt == Val(box_template)
            ba == Val(box_artwork)
            sx == Val(scale_x)
            sy == Val(scale_y)
            tx == Val(translation_x)
            ty == Val(translation_y)
        IN  /\ bt.w > 0 /\ bt.h > 0 /\ ba.w > 0 /\ ba.h > 0
            /\ sx.den > 0 /\ sx.num * ba.w = sx.den * bt.w
            /\ sy.den > 0 /\ sy.num * ba.h = sy.den * bt.h
            /\ bt.w = 2 * ba.w => sx = [num |-> 2, den |-> 1]
            /\ tx.den > 0 /\ tx.num * sx.den = tx.den * (bt.x * sx.den - ba.x * sx.num)
            /\ ty.den > 0 /\ ty.num * sy.den = ty.den * (bt.y * sy.den - ba.y * sy.num)
            /\ RatAdd(RatMul(RatOfInt(ba.x), sx), tx) = RatOfInt(bt.x)
            /\ RatAdd(RatMul(RatOfInt(ba.y), sy), ty) = RatOfInt(bt.y)

C5_Witness ==
    /\ align_called
    /\ Val(box_template).w = 4 /\ Val(box_artwork).w = 2
    /\ scale_x = Some([num |-> 2, den |-> 1])
    /\ scale_y = Some([num |-> 1, den |-> 2])

C5_WitnessTranslation ==
    /\ align_called
    /\ Val(box_artwork).x > 0
    /\ Val(translation_x).den > 1

\* C6: the polygon that anchors each image is the first candidate of that
\* image's list, and the composite (the one written) is the one computed
\* from the two first candidates alone, whatever candidates follow them.
C6_FirstMatchWins ==
    align_called =>
        /\ L_template = Some(Val(L_shapes_template)[1])
        /\ L_artwork = Some(Val(L_shapes_artwork)[1])
        /\ result_img =
               AlignAndOverlay(Val(template_img), Val(artwork_img),
                               Head(Val(L_shapes_template)), Head(Val(L_shapes_artwork)),
                               Val(transparency)).overlay
        /\ pc = "done" => written = result_img

C6_Witness ==
    /\ pc = "done"
    /\ written # None
    /\ Len(Val(L_shapes_template)) = 2
    /\ Len(Val(L_shapes_artwork)) = 2
    /\ BoundingRect(Val(L_shapes_template)[1]) # BoundingRect(Val(L_shapes_template)[2])
    /\ BoundingRect(Val(L_shapes_artwork)[1]) # BoundingRect(Val(L_shapes_artwork)[2])

(***************************************************************************)
(* Properties of align_and_overlay called on its own (SpecAlign).          *)
(***************************************************************************)
DegenerateBox(b) == b.w = 0 \/ b.h = 0

\* C2: whenever a fiducial's bounding box has width 0 or height 0, the call
\* fails with DegenerateGeometryError before any scale factor is used.
C2_DegenerateBoxFailsFast ==
    (/\ align_called
     /\ (DegenerateBox(Val(box_template)) \/ DegenerateBox(Val(box_artwork)))) =>
        /\ error = "DegenerateGeometryError"
        /\ scale_x = None
        /\ scale_y = None

\* C9: when the template and the artwork differ in their number of
\* channels, the call that reaches the blend still produces a composite.
C9_MixedChannelsBlended ==
    (/\ align_called
     /\ Val(template_img).ch # Val(artwork_img).ch
     /\ artwork_translated # None) =>
        /\ error = "None"
        /\ result_img # None

=============================================================================
